---- MODULE Spec2Model ----
(***************************************************************************)
(* Day 06 of advent-of-rust-2024: the grid patrol (src/day06/src/main.rs). *)
(* A SituationMap holds a row-major Vec of MapElements, its width and      *)
(* height, and the player (coords + orientation).  solve_part_1 walks the  *)
(* player until it leaves the map and counts the seen tiles; solve_part_2  *)
(* walks the same way and, before each step of its loop, probes whether    *)
(* obstructing the tile in front would trap the player in a cycle.         *)
(***************************************************************************)
EXTENDS Naturals, Integers, Sequences, FiniteSets, TLC

\* ------------------------------------------------------------------ bounds
MaxRows == 3      \* largest map_height of the enumerated input texts
MaxCols == 3      \* largest map_width of the enumerated input texts
MaxObst == 2      \* most '#' glyphs in an enumerated text given to main
TestMaxObst == 1  \* most '#' glyphs in an enumerated text of the probe harness
QMaxObst == 1     \* most '#' glyphs in an enumerated text of the query harness
WMaxObst == 0     \* most '#' glyphs in an enumerated text of the write harness
PMaxChars == 4    \* most characters, line ends apart, in a text of the parse harness
PMaxLines == 2    \* most lines in a text of the parse harness
D7MaxDigit == 3   \* largest digit in an enumerated day07 calibration line
D7MaxLen == 3     \* most operands in an enumerated day07 calibration line
D2MaxVal == 5     \* largest measurement in an enumerated day02 reactor row
D2MaxLen == 4     \* most measurements in an enumerated day02 reactor row

\* ------------------------------------------------------------ Option<T>
None == [some |-> FALSE]
Some(v) == [some |-> TRUE, val |-> v]

\* ----------------------------------------------------------- enum values
Orientations == {"Up", "Right", "Down", "Left"}
MapElements == {"Free", "PrevouslySeen", "Obstructed"}
Glyphs == {"^", ">", "v", "<"}

Coord(r, c) == [row |-> r, col |-> c]

\* rotate_right with the arms of the match in the other direction.
rotate_right_anticlockwise(o) ==
  CASE o = "Up" -> "Left"
    [] o = "Left" -> "Down"
    [] o = "Down" -> "Right"
    [] o = "Right" -> "Up"

\* rotate_right with the Right and Left arms sending the player back.
rotate_right_swaps(o) ==
  CASE o = "Up" -> "Right"
    [] o = "Right" -> "Up"
    [] o = "Down" -> "Left"
    [] o = "Left" -> "Down"

\* Orientation::rotate_right
rotate_right(o) ==
  CASE o = "Up" -> "Right"
    [] o = "Right" -> "Down"
    [] o = "Down" -> "Left"
    [] o = "Left" -> "Up"

\* ------------------------------------------------------------- try_from
\* The orientation a glyph decodes to (the inner match of try_from).
GlyphOrientation(c) ==
  CASE c = "^" -> "Up"
    [] c = ">" -> "Right"
    [] c = "v" -> "Down"
    [] c = "<" -> "Left"

ParseErr == [ok |-> FALSE]

\* ParseChar without the duplicate-player arm: the last glyph wins.
ParseChar_last_player(acc, row, col, c) ==
  IF c = "." THEN [acc EXCEPT !.map = Append(@, "Free")]
  ELSE IF c = "#" THEN [acc EXCEPT !.map = Append(@, "Obstructed")]
  ELSE IF c \in Glyphs THEN
    [acc EXCEPT !.map = Append(@, "PrevouslySeen"),
                !.player = Some([coords |-> Coord(row, col),
                                 orientation |-> GlyphOrientation(c)])]
  ELSE ParseErr

\* One character of one line: pushes a tile, records the player, or fails.
\* acc = [ok, map, player (Option)].
ParseChar(acc, row, col, c) ==
  IF c = "." THEN [acc EXCEPT !.map = Append(@, "Free")]
  ELSE IF c = "#" THEN [acc EXCEPT !.map = Append(@, "Obstructed")]
  ELSE IF c \in Glyphs THEN
    IF acc.player.some THEN ParseErr
    ELSE [acc EXCEPT !.map = Append(@, "PrevouslySeen"),
                     !.player = Some([coords |-> Coord(row, col),
                                      orientation |-> GlyphOrientation(c)])]
  ELSE ParseErr

\* The characters col.. of one line (0-based), left to right.
RECURSIVE ParseLine(_, _, _, _)
ParseLine(acc, line, row, col) ==
  IF ~acc.ok \/ col >= Len(line) THEN acc
  ELSE ParseLine(ParseChar(acc, row, col, line[col + 1]), line, row, col + 1)

\* The lines row.. of the text (0-based), top to bottom.
RECURSIVE ParseRows(_, _, _, _)
ParseRows(acc, lines, map_width, row) ==
  IF ~acc.ok \/ row >= Len(lines) THEN acc
  ELSE IF Len(lines[row + 1]) # map_width THEN ParseErr
  ELSE ParseRows(ParseLine([acc EXCEPT !.map_height = @ + 1], lines[row + 1], row, 0),
                 lines, map_width, row + 1)

\* impl TryFrom<&str> for SituationMap; the text is given as its lines.
try_from(lines) ==
  IF Len(lines) = 0 THEN ParseErr
  ELSE
    LET map_width == Len(lines[1])
        acc == ParseRows([ok |-> TRUE, map |-> << >>, player |-> None, map_height |-> 0],
                         lines, map_width, 0)
    IN IF ~acc.ok THEN ParseErr
       ELSE IF ~acc.player.some THEN ParseErr
       ELSE [ok |-> TRUE,
             board |-> [player |-> acc.player.val, map |-> acc.map,
                        map_height |-> acc.map_height, map_width |-> map_width]]

\* ---------------------------------------------------------- SituationMap
\* Vec::get as used by what_is_at: a checked read of a 0-based index.
VecGet(v, i) == IF i < Len(v) THEN Some(v[i + 1]) ELSE None

\* what_is_at without the column check: a column past the row's end reads
\* the slot of the next row.
what_is_at_unchecked_col(b, coord) ==
  IF coord.row >= b.map_height THEN None
  ELSE VecGet(b.map, (b.map_width * coord.row) + coord.col)

\* SituationMap::what_is_at
what_is_at(b, coord) ==
  IF coord.col >= b.map_width THEN None
  ELSE IF coord.row >= b.map_height THEN None
  ELSE VecGet(b.map, (b.map_width * coord.row) + coord.col)

\* SituationMap::set_at: an unchecked-by-coordinate write of the Vec slot
\* map_width * row + col (the index operator panics past the Vec's end).
set_at_panics(b, coord) == (b.map_width * coord.row) + coord.col >= Len(b.map)

set_at(b, coord, element) ==
  [b EXCEPT !.map[(b.map_width * coord.row) + coord.col + 1] = element]

\* SituationMap::seen_tiles
seen_tiles(b) == Cardinality({i \in 1..Len(b.map) : b.map[i] = "PrevouslySeen"})

\* what_is_in_front with the Down bound off by one: the last row is never
\* in front.
what_is_in_front_short(b, player) ==
  LET coords_in_front ==
        CASE player.orientation = "Up" ->
               IF player.coords.row = 0 THEN None
               ELSE Some(Coord(player.coords.row - 1, player.coords.col))
          [] player.orientation = "Right" ->
               IF player.coords.col >= b.map_width THEN None
               ELSE Some(Coord(player.coords.row, player.coords.col + 1))
          [] player.orientation = "Down" ->
               IF player.coords.row + 2 >= b.map_height THEN None
               ELSE Some(Coord(player.coords.row + 1, player.coords.col))
          [] player.orientation = "Left" ->
               IF player.coords.col = 0 THEN None
               ELSE Some(Coord(player.coords.row, player.coords.col - 1))
  IN IF ~coords_in_front.some THEN None
     ELSE LET element_in_front == what_is_at(b, coords_in_front.val)
          IN IF ~element_in_front.some THEN None
             ELSE Some([coord |-> coords_in_front.val, element |-> element_in_front.val])

\* SituationMap::what_is_in_front
what_is_in_front(b, player) ==
  LET coords_in_front ==
        CASE player.orientation = "Up" ->
               IF player.coords.row = 0 THEN None
               ELSE Some(Coord(player.coords.row - 1, player.coords.col))
          [] player.orientation = "Right" ->
               IF player.coords.col >= b.map_width THEN None
               ELSE Some(Coord(player.coords.row, player.coords.col + 1))
          [] player.orientation = "Down" ->
               IF player.coords.row + 1 >= b.map_height THEN None
               ELSE Some(Coord(player.coords.row + 1, player.coords.col))
          [] player.orientation = "Left" ->
               IF player.coords.col = 0 THEN None
               ELSE Some(Coord(player.coords.row, player.coords.col - 1))
  IN IF ~coords_in_front.some THEN None
     ELSE LET element_in_front == what_is_at(b, coords_in_front.val)
          IN IF ~element_in_front.some THEN None
             ELSE Some([coord |-> coords_in_front.val, element |-> element_in_front.val])

\* SituationMap::update_map
update_map_panics(b, at) == at.row + 1 > b.map_height \/ at.col + 1 > b.map_width

update_map(b, at, element) ==
  [b EXCEPT !.map[(b.map_width * at.row) + at.col + 1] = element]

\* step marking the tile it leaves instead of the tile it enters.
step_marks_left_tile(b) ==
  LET front == what_is_in_front(b, b.player)
  IN IF ~front.some THEN [board |-> b, ret |-> None]
     ELSE IF front.val.element \in {"Free", "PrevouslySeen"} THEN
       LET moved == [b EXCEPT !.player.coords = front.val.coord]
       IN [board |-> update_map(moved, b.player.coords, "PrevouslySeen"),
           ret |-> Some(moved.player.coords)]
     ELSE
       [board |-> [b EXCEPT !.player.orientation = rotate_right(@)],
        ret |-> Some(b.player.coords)]

\* step writing Free on a tile it enters for the second time.
step_unmarks_revisited(b) ==
  LET front == what_is_in_front(b, b.player)
  IN IF ~front.some THEN [board |-> b, ret |-> None]
     ELSE IF front.val.element \in {"Free", "PrevouslySeen"} THEN
       LET moved == [b EXCEPT !.player.coords = front.val.coord]
       IN [board |-> update_map(moved, moved.player.coords,
                                IF front.val.element = "Free" THEN "PrevouslySeen" ELSE "Free"),
           ret |-> Some(moved.player.coords)]
     ELSE
       [board |-> [b EXCEPT !.player.orientation = rotate_right(@)],
        ret |-> Some(b.player.coords)]

\* step turning the player before it reports that nothing lies ahead.
step_rotates_on_exit(b) ==
  LET front == what_is_in_front(b, b.player)
  IN IF ~front.some THEN [board |-> [b EXCEPT !.player.orientation = rotate_right(@)],
                          ret |-> None]
     ELSE IF front.val.element \in {"Free", "PrevouslySeen"} THEN
       LET moved == [b EXCEPT !.player.coords = front.val.coord]
       IN [board |-> update_map(moved, moved.player.coords, "PrevouslySeen"),
           ret |-> Some(moved.player.coords)]
     ELSE
       [board |-> [b EXCEPT !.player.orientation = rotate_right(@)],
        ret |-> Some(b.player.coords)]

\* SituationMap::step: the board after the call and the returned Option.
step(b) ==
  LET front == what_is_in_front(b, b.player)
  IN IF ~front.some THEN [board |-> b, ret |-> None]
     ELSE IF front.val.element \in {"Free", "PrevouslySeen"} THEN
       LET moved == [b EXCEPT !.player.coords = front.val.coord]
       IN [board |-> update_map(moved, moved.player.coords, "PrevouslySeen"),
           ret |-> Some(moved.player.coords)]
     ELSE
       [board |-> [b EXCEPT !.player.orientation = rotate_right(@)],
        ret |-> Some(b.player.coords)]

\* --------------------------------------------------- test_circular_path
\* The locals of one call of test_circular_path; `returned` says whether the
\* call has come back and `result` is then its Option<Coord>.
NoProbe == [virtual_player |-> None, visited_tiles |-> {}, old_location |-> None,
            old_tile |-> None, returned |-> FALSE, result |-> None, active |-> FALSE]

\* The prologue of test_circular_path: the virtual player, the empty set, the
\* `?` on the tile in front and the temporary obstruction.
test_begin(b, starting_at, orientation) ==
  LET virtual_player == [coords |-> starting_at, orientation |-> orientation]
      front == what_is_in_front(b, virtual_player)
  IN IF ~front.some THEN
       [board |-> b,
        locals |-> [NoProbe EXCEPT !.virtual_player = Some(virtual_player),
                                   !.returned = TRUE, !.active = TRUE]]
     ELSE
       [board |-> set_at(b, front.val.coord, "Obstructed"),
        locals |-> [NoProbe EXCEPT !.virtual_player = Some(virtual_player),
                                   !.old_location = Some(front.val.coord),
                                   !.old_tile = Some(front.val.element),
                                   !.active = TRUE]]

\* The loop iteration with the visited set keyed by coordinate alone.
test_iterate_by_coord(b, t) ==
  LET vp == t.virtual_player.val
      front == what_is_in_front(b, vp)
  IN IF ~front.some THEN
       [board |-> set_at(b, t.old_location.val, t.old_tile.val),
        locals |-> [t EXCEPT !.returned = TRUE, !.result = None]]
     ELSE IF front.val.element \in {"Free", "PrevouslySeen"} THEN
       [board |-> b,
        locals |-> [t EXCEPT !.virtual_player = Some([vp EXCEPT !.coords = front.val.coord])]]
     ELSE
       LET turned == [vp EXCEPT !.orientation = rotate_right(@)]
           pair == <<turned.coords, turned.orientation>>
       IN IF \E x \in t.visited_tiles : x[1] = turned.coords THEN
            [board |-> set_at(b, t.old_location.val, t.old_tile.val),
             locals |-> [t EXCEPT !.virtual_player = Some(turned),
                                  !.returned = TRUE, !.result = t.old_location]]
          ELSE
            [board |-> b,
             locals |-> [t EXCEPT !.virtual_player = Some(turned),
                                  !.visited_tiles = @ \cup {pair}]]

\* The loop iteration restoring the candidate to Free instead of to the
\* recorded tile.
test_iterate_frees(b, t) ==
  LET vp == t.virtual_player.val
      front == what_is_in_front(b, vp)
  IN IF ~front.some THEN
       [board |-> set_at(b, t.old_location.val, "Free"),
        locals |-> [t EXCEPT !.returned = TRUE, !.result = None]]
     ELSE IF front.val.element \in {"Free", "PrevouslySeen"} THEN
       [board |-> b,
        locals |-> [t EXCEPT !.virtual_player = Some([vp EXCEPT !.coords = front.val.coord])]]
     ELSE
       LET turned == [vp EXCEPT !.orientation = rotate_right(@)]
           pair == <<turned.coords, turned.orientation>>
       IN IF pair \in t.visited_tiles THEN
            [board |-> set_at(b, t.old_location.val, "Free"),
             locals |-> [t EXCEPT !.virtual_player = Some(turned),
                                  !.returned = TRUE, !.result = t.old_location]]
          ELSE
            [board |-> b,
             locals |-> [t EXCEPT !.virtual_player = Some(turned),
                                  !.visited_tiles = @ \cup {pair}]]

\* The loop iteration ignoring what HashSet::insert returns.
test_iterate_unchecked(b, t) ==
  LET vp == t.virtual_player.val
      front == what_is_in_front(b, vp)
  IN IF ~front.some THEN
       [board |-> set_at(b, t.old_location.val, t.old_tile.val),
        locals |-> [t EXCEPT !.returned = TRUE, !.result = None]]
     ELSE IF front.val.element \in {"Free", "PrevouslySeen"} THEN
       [board |-> b,
        locals |-> [t EXCEPT !.virtual_player = Some([vp EXCEPT !.coords = front.val.coord])]]
     ELSE
       LET turned == [vp EXCEPT !.orientation = rotate_right(@)]
           pair == <<turned.coords, turned.orientation>>
       IN [board |-> b,
           locals |-> [t EXCEPT !.virtual_player = Some(turned),
                                !.visited_tiles = @ \cup {pair}]]

\* The loop iteration with Obstructed in the arm of the tiles to walk onto.
test_iterate_walks_through(b, t) ==
  LET vp == t.virtual_player.val
      front == what_is_in_front(b, vp)
  IN IF ~front.some THEN
       [board |-> set_at(b, t.old_location.val, t.old_tile.val),
        locals |-> [t EXCEPT !.returned = TRUE, !.result = None]]
     ELSE
       [board |-> b,
        locals |-> [t EXCEPT !.virtual_player = Some([vp EXCEPT !.coords = front.val.coord])]]

\* The loop iteration leaving the temporary obstruction in place when the
\* virtual player walks out of the map.
test_iterate_leaves_obstruction(b, t) ==
  LET vp == t.virtual_player.val
      front == what_is_in_front(b, vp)
  IN IF ~front.some THEN
       [board |-> b,
        locals |-> [t EXCEPT !.returned = TRUE, !.result = None]]
     ELSE IF front.val.element \in {"Free", "PrevouslySeen"} THEN
       [board |-> b,
        locals |-> [t EXCEPT !.virtual_player = Some([vp EXCEPT !.coords = front.val.coord])]]
     ELSE
       LET turned == [vp EXCEPT !.orientation = rotate_right(@)]
           pair == <<turned.coords, turned.orientation>>
       IN IF pair \in t.visited_tiles THEN
            [board |-> set_at(b, t.old_location.val, t.old_tile.val),
             locals |-> [t EXCEPT !.virtual_player = Some(turned),
                                  !.returned = TRUE, !.result = t.old_location]]
          ELSE
            [board |-> b,
             locals |-> [t EXCEPT !.virtual_player = Some(turned),
                                  !.visited_tiles = @ \cup {pair}]]

\* One iteration of the loop of test_circular_path.
test_iterate(b, t) ==
  LET vp == t.virtual_player.val
      front == what_is_in_front(b, vp)
  IN IF ~front.some THEN
       [board |-> set_at(b, t.old_location.val, t.old_tile.val),
        locals |-> [t EXCEPT !.returned = TRUE, !.result = None]]
     ELSE IF front.val.element \in {"Free", "PrevouslySeen"} THEN
       [board |-> b,
        locals |-> [t EXCEPT !.virtual_player = Some([vp EXCEPT !.coords = front.val.coord])]]
     ELSE
       LET turned == [vp EXCEPT !.orientation = rotate_right(@)]
           pair == <<turned.coords, turned.orientation>>
       IN IF pair \in t.visited_tiles THEN
            [board |-> set_at(b, t.old_location.val, t.old_tile.val),
             locals |-> [t EXCEPT !.virtual_player = Some(turned),
                                  !.returned = TRUE, !.result = t.old_location]]
          ELSE
            [board |-> b,
             locals |-> [t EXCEPT !.virtual_player = Some(turned),
                                  !.visited_tiles = @ \cup {pair}]]

\* The loop of test_circular_path run until the call returns.
\* At most n iterations of the loop.
RECURSIVE test_run(_, _)
test_run(bt, n) ==
  IF n = 0 \/ bt.locals.returned THEN bt
  ELSE test_run(test_iterate(bt.board, bt.locals), n - 1)

\* The loop, run to its return in runs of twice the board's side at a time.
RECURSIVE test_loop(_)
test_loop(bt) ==
  IF bt.locals.returned THEN bt
  ELSE test_loop(test_run(bt, 2 * (bt.board.map_width + bt.board.map_height)))

\* SituationMap::test_circular_path as one call: the board after it and the
\* returned Option<Coord>.
test_circular_path(b, starting_at, orientation) ==
  LET bt == test_loop(test_begin(b, starting_at, orientation))
  IN [board |-> bt.board, ret |-> bt.locals.result]

\* ------------------------------------------------------------- day07
\* src/day07/src/main.rs.  A calibration line "t: a b c" is given as the
\* digit strings its parser splits it into: sum_str before ": " and
\* vector_strs separated by " ".
DigitChars == <<"0", "1", "2", "3", "4", "5", "6", "7", "8", "9">>

\* char::is_ascii_digit
is_digit(c) == \E k \in 1..10 : DigitChars[k] = c

\* str::parse::<usize> of a string of digits, most significant first.
RECURSIVE from_num_str(_)
from_num_str(str) ==
  IF Len(str) = 0 THEN 0
  ELSE (10 * from_num_str(SubSeq(str, 1, Len(str) - 1)))
       + ((CHOOSE k \in 1..10 : DigitChars[k] = str[Len(str)]) - 1)

\* parse_input_line: the CalibrationEquation of a line.
parse_input_line(line) ==
  [calibration_sum |-> from_num_str(line.sum_str),
   calibration_vectors |-> [i \in 1..Len(line.vector_strs) |->
                              from_num_str(line.vector_strs[i])]]

\* calculate_recursively: the Vec<Solution> it returns, a Solution being
\* the sequence of its operands.
RECURSIVE calculate_recursively(_, _, _, _)
calculate_recursively(sum, limit, solution, remainder) ==
  LET multiply_result == sum * remainder[1]
      addition_result == sum + remainder[1]
      m_solution == Append(solution, "Multiply")
      a_solution == Append(solution, "Add")
      rest == SubSeq(remainder, 2, Len(remainder))
  IN IF Len(remainder) = 1 THEN
       IF multiply_result = limit /\ addition_result = limit THEN <<m_solution, a_solution>>
       ELSE IF multiply_result = limit THEN <<m_solution>>
       ELSE IF addition_result = limit THEN <<a_solution>>
       ELSE << >>
     ELSE
       IF limit >= multiply_result /\ limit >= addition_result THEN
         calculate_recursively(multiply_result, limit, m_solution, rest)
           \o calculate_recursively(addition_result, limit, a_solution, rest)
       ELSE IF limit >= multiply_result THEN
         calculate_recursively(multiply_result, limit, m_solution, rest)
       ELSE IF limit >= addition_result THEN
         calculate_recursively(addition_result, limit, a_solution, rest)
       ELSE << >>

\* ------------------------------------------------------------- day02
\* src/day02/src/main.rs
MAXIMUM_MEASUREMENT_DELTA == 3

\* usize::abs_diff
abs_diff(a, b) == IF a >= b THEN a - b ELSE b - a

\* The while loop of check_row_safety from the i-th measurement (1-based).
RECURSIVE check_row_from(_, _, _, _)
check_row_from(reactor_row, i, prev, sloping_up) ==
  IF i > Len(reactor_row) THEN "Safe"
  ELSE LET col == reactor_row[i]
       IN IF abs_diff(prev, col) > MAXIMUM_MEASUREMENT_DELTA THEN "UnsafeDelta"
          ELSE IF prev = col THEN "NoSlope"
          ELSE IF (prev > col) # sloping_up THEN "UnevenSlope"
          ELSE check_row_from(reactor_row, i + 1, col, sloping_up)

\* check_row_safety
check_row_safety(reactor_row) ==
  IF Len(reactor_row) = 0 THEN "Safe"
  ELSE LET first == reactor_row[1]
           sloping_up == Len(reactor_row) >= 2 /\ first > reactor_row[2]
       IN check_row_from(reactor_row, 2, first, sloping_up)

\* ------------------------------------------------------------ the state
VARIABLES
  board,          \* the SituationMap the running solver or harness owns
  pc,             \* where main is: "walk" (solve_part_1's loop), "first", "probe",
                  \* "step" (solve_part_2), "done"; or "harness" / "query";
                  \* or "write", and "panicked" once a write has panicked;
                  \* or "parse", then "parsed" or "parse_error"; or "repeat";
                  \* or "day07", then "day07_done"; or "day02"
  coords,         \* solve_part_2's HashSet<Coord> of trapping obstructions
  answer1,        \* what solve_part_1 returned, None until it has
  answer2,        \* what solve_part_2 returned, None until it has
  probe,          \* the probe solve_part_2 ran in its current loop iteration
  test,           \* the locals of the harness's running test_circular_path call
  call,           \* the board and arguments the harness's running call started from
  q,              \* the last query of the query harness and what it returned
  input,          \* the lines of the puzzle text given to try_from
  board0,         \* the board as parsed
  occupied,       \* the coordinates the player has stood on in the current walk
  moves,          \* forward moves made by step in the current walk (saturating)
  turns,          \* turns made by step in the current walk (saturating)
  turns_at,       \* turns made by step in the current walk, per coordinate (saturating)
  trail,          \* the (coords, orientation) states the player has held in the walk
  looped,         \* the player came back to a state it held before
  back_at_start,  \* the player came back to the parsed start state
  path,           \* the (coords, orientation) states of the current walk in order,
                  \* up to the first state held twice
  walk1           \* the path and the Visited cells solve_part_1's walk ended with

vars == <<board, pc, coords, answer1, answer2, probe, test, call, q, input, board0,
          occupied, moves, turns, turns_at, trail, looped, back_at_start, path, walk1>>

walk_vars == <<occupied, moves, turns, turns_at, trail, looped, back_at_start, path, walk1>>

\* ------------------------------------------------------------ the inputs
Cells(h, w) == {Coord(r, c) : r \in 0..(h - 1), c \in 0..(w - 1)}

ObstSets(h, w, k) == {S \in SUBSET Cells(h, w) : Cardinality(S) <= k}

\* The lines of a well-formed puzzle text: '#' on the cells of S, the glyph g
\* on cell p and '.' elsewhere.
MakeText(h, w, S, p, g) ==
  [r \in 1..h |-> [c \in 1..w |->
     IF Coord(r - 1, c - 1) \in S THEN "#"
     ELSE IF Coord(r - 1, c - 1) = p THEN g ELSE "."]]

\* tests::EXAMPLE_INPUT
EXAMPLE_INPUT ==
  MakeText(10, 10,
           {Coord(0, 4), Coord(1, 9), Coord(3, 2), Coord(4, 7), Coord(6, 1),
            Coord(7, 8), Coord(8, 0), Coord(9, 6)},
           Coord(6, 4), "^")

\* The board of tests::test_circular_path_detection.
CIRCULAR_BOARD ==
  MakeText(4, 13, {Coord(1, 11), Coord(2, 0), Coord(2, 12), Coord(3, 1), Coord(3, 11)},
           Coord(2, 1), "v")

\* That board with the obstruction the test expects to be found put in place.
TRAPPED_BOARD ==
  MakeText(4, 13,
           {Coord(1, 1), Coord(1, 11), Coord(2, 0), Coord(2, 12), Coord(3, 1), Coord(3, 11)},
           Coord(2, 1), "v")

\* A text whose patrol leaves the map straight away and is trapped on a
\* rectangle through the start once the cell in front of the start is
\* obstructed.
AHEAD_BOARD == MakeText(3, 4, {Coord(1, 0), Coord(1, 3), Coord(2, 2)}, Coord(1, 1), "^")

\* A 14 x 14 text whose patrol leaves the map after 198 forward moves, two
\* more than the map has cells.
LONG_WALK_BOARD ==
  MakeText(14, 14,
           {Coord(0, 2), Coord(0, 4), Coord(0, 7), Coord(0, 9), Coord(1, 3), Coord(1, 5),
            Coord(1, 6), Coord(1, 8), Coord(1, 11), Coord(2, 1), Coord(2, 5), Coord(2, 12),
            Coord(3, 6), Coord(3, 10), Coord(4, 0), Coord(4, 13), Coord(5, 1), Coord(5, 12),
            Coord(6, 11), Coord(7, 8), Coord(8, 0), Coord(8, 3), Coord(8, 13), Coord(9, 2),
            Coord(9, 12), Coord(10, 1), Coord(10, 10), Coord(11, 7), Coord(12, 0),
            Coord(12, 5), Coord(12, 8), Coord(12, 11), Coord(13, 4), Coord(13, 6),
            Coord(13, 9)},
           Coord(10, 7), "^")

\* The board of tests::test_insert.
INSERT_BOARD == MakeText(4, 4, {Coord(3, 2)}, Coord(2, 2), "^")

\* The boards of tests::test_detection_near_edges.
EDGE_BOARDS ==
  {MakeText(4, 4, {Coord(0, 0)}, Coord(0, 1), "<"),
   MakeText(4, 4, {Coord(0, 0)}, Coord(1, 0), "^"),
   MakeText(4, 4, {Coord(0, 3)}, Coord(0, 2), ">"),
   MakeText(4, 4, {Coord(0, 3)}, Coord(1, 3), "^"),
   MakeText(4, 4, {Coord(3, 0)}, Coord(3, 1), "<"),
   MakeText(4, 4, {Coord(3, 0)}, Coord(2, 0), "v"),
   MakeText(4, 4, {Coord(3, 3)}, Coord(3, 2), ">"),
   MakeText(4, 4, {Coord(3, 3)}, Coord(2, 3), "v")}

\* The saturation point of the step counter of a walk on board b: more
\* steps than a walk that leaves the map can make.
StepCap(b) == (4 * b.map_width * b.map_height) + 1

\* The state right after try_from: the board handed on is its Ok value.
Start(lines, p) ==
  LET parsed == try_from(lines)
  IN /\ parsed.ok
     /\ input = lines
     /\ board = parsed.board
     /\ board0 = board
     /\ pc = p
     /\ coords = {}
     /\ answer1 = None
     /\ answer2 = None
     /\ probe = None
     /\ test = NoProbe
     /\ call = None
     /\ q = None
     /\ occupied = {board.player.coords}
     /\ moves = 0
     /\ turns = 0
     /\ turns_at = [c \in Cells(board.map_height, board.map_width) |-> 0]
     /\ trail = {board.player}
     /\ looped = FALSE
     /\ back_at_start = FALSE
     /\ path = <<board.player>>
     /\ walk1 = None

\* main: the text parses and solve_part_1 is about to run on a clone.
\* Some well-formed text of at most MaxRows x MaxCols with at most k '#'
\* parses, and control is at p.
StartSmall(k, p) ==
  \E h \in 1..MaxRows, w \in 1..MaxCols :
    \E S \in ObstSets(h, w, k) :
      \E c \in Cells(h, w) \ S, g \in Glyphs :
        Start(MakeText(h, w, S, c, g), p)

Init ==
  \/ StartSmall(MaxObst, "walk")
  \/ \E lines \in {EXAMPLE_INPUT, CIRCULAR_BOARD, TRAPPED_BOARD, AHEAD_BOARD,
                    LONG_WALK_BOARD} :
       Start(lines, "walk")

\* ----------------------------------------------------- the walk's record
\* What one call of step adds to the record of the walk; s is step(board).
Walked(s) ==
  LET after == s.board.player
      moved == s.ret.some /\ after.coords # board.player.coords
      turned == s.ret.some /\ after.orientation # board.player.orientation
  IN /\ occupied' = occupied \cup {after.coords}
     /\ moves' = IF moved /\ moves < StepCap(board) THEN moves + 1 ELSE moves
     /\ turns' = IF turned /\ turns < StepCap(board) THEN turns + 1 ELSE turns
     /\ turns_at' = IF turned /\ turns_at[after.coords] < 5
                    THEN [turns_at EXCEPT ![after.coords] = @ + 1] ELSE turns_at
     /\ trail' = trail \cup {after}
     /\ looped' = (looped \/ (s.ret.some /\ after \in trail))
     /\ back_at_start' = (back_at_start \/ (s.ret.some /\ after = board0.player))
     /\ path' = IF s.ret.some /\ ~looped /\ after \notin trail THEN Append(path, after)
                ELSE path
     /\ walk1' = walk1

\* The record of a walk that is about to start from the parsed board; the
\* walk that has just ended is kept in walk1.
WalkReset ==
  /\ occupied' = {board0.player.coords}
  /\ moves' = 0
  /\ turns' = 0
  /\ turns_at' = [c \in DOMAIN turns_at |-> 0]
  /\ trail' = {board0.player}
  /\ looped' = FALSE
  /\ back_at_start' = FALSE
  /\ path' = <<board0.player>>
  /\ walk1' = Some([path |-> path,
                    visited |-> {c \in Cells(board.map_height, board.map_width) :
                                   board.map[(board.map_width * c.row) + c.col + 1]
                                     = "PrevouslySeen"}])

\* ---------------------------------------------------------- solve_part_1
\* One iteration of solve_part_1's loop.
P1Step ==
  /\ pc = "walk"
  /\ step(board).ret.some
  /\ board' = step(board).board
  /\ Walked(step(board))
  /\ UNCHANGED <<pc, coords, answer1, answer2, probe, test, call, q, input, board0>>

\* The iteration in which step returns None: the loop breaks and
\* solve_part_1 returns seen_tiles().
P1Return ==
  /\ pc = "walk"
  /\ ~step(board).ret.some
  /\ answer1' = Some(seen_tiles(step(board).board))
  /\ pc' = "part1_done"
  /\ UNCHANGED <<board, coords, answer2, probe, test, call, q, input, board0, walk_vars>>

\* main after solve_part_1: solve_part_1 walked a clone, and the parsed
\* board itself is handed to solve_part_2.
MainPart2 ==
  /\ pc = "part1_done"
  /\ board' = board0
  /\ WalkReset
  /\ pc' = "first"
  /\ UNCHANGED <<coords, answer1, answer2, probe, test, call, q, input, board0>>

\* ---------------------------------------------------------- solve_part_2
\* The step before the loop: on None the function returns 0.
P2First ==
  /\ pc = "first"
  /\ LET s == step(board)
     IN /\ board' = s.board
        /\ Walked(s)
        /\ IF s.ret.some
           THEN pc' = "probe" /\ answer2' = answer2
           ELSE pc' = "done" /\ answer2' = Some(0)
  /\ UNCHANGED <<coords, answer1, probe, test, call, q, input, board0>>

\* The probe condition without the comparison with Free.
probe_wanted_any(b) == what_is_in_front(b, b.player).some

\* The condition under which a loop iteration probes: a tile lies in front
\* and it is Free.
probe_wanted(b) ==
  LET front == what_is_in_front(b, b.player)
  IN front.some /\ front.val.element = "Free"

\* The first half of a loop iteration: the probe of the tile in front, run
\* when that tile is Free.
P2Probe ==
  /\ pc = "probe"
  /\ IF probe_wanted(board)
        THEN LET r == test_circular_path(board, board.player.coords, board.player.orientation)
             IN /\ board' = r.board
                /\ coords' = IF r.ret.some THEN coords \cup {r.ret.val} ELSE coords
                /\ probe' = Some([cursor |-> board.player, before |-> board, ret |-> r.ret])
        ELSE /\ probe' = None
             /\ UNCHANGED <<board, coords>>
  /\ pc' = "step"
  /\ UNCHANGED <<answer1, answer2, test, call, q, input, board0, walk_vars>>

\* The second half of a loop iteration: the real step; on None the loop
\* breaks and the function returns coords.len().
P2Step ==
  /\ pc = "step"
  /\ LET s == step(board)
     IN /\ board' = s.board
        /\ Walked(s)
        /\ IF s.ret.some
           THEN pc' = "probe" /\ answer2' = answer2
           ELSE pc' = "done" /\ answer2' = Some(Cardinality(coords))
  /\ UNCHANGED <<coords, answer1, probe, test, call, q, input, board0>>

Next == P1Step \/ P1Return \/ MainPart2 \/ P2First \/ P2Probe \/ P2Step

Spec == Init /\ [][Next]_vars

\* ------------------------------------------------- the probe harness
\* A caller that owns a parsed board and calls its two mutating methods in
\* any order: step(), and test_circular_path with the player's cursor (the
\* arguments solve_part_2 passes) whatever lies in front.  The call of
\* test_circular_path is followed one loop iteration at a time.
InitTest ==
  \/ StartSmall(TestMaxObst, "harness")
  \/ \E lines \in {CIRCULAR_BOARD, TRAPPED_BOARD, AHEAD_BOARD} : Start(lines, "harness")

HStep ==
  /\ pc = "harness"
  /\ ~test.active
  /\ step(board).ret.some
  /\ board' = step(board).board
  /\ Walked(step(board))
  /\ UNCHANGED <<pc, coords, answer1, answer2, probe, test, call, q, input, board0>>

\* The call and the prologue of test_circular_path.
HCall ==
  /\ pc = "harness"
  /\ ~test.active
  /\ LET bt == test_begin(board, board.player.coords, board.player.orientation)
     IN /\ board' = bt.board
        /\ test' = bt.locals
  /\ call' = Some([board |-> board, starting_at |-> board.player.coords,
                   orientation |-> board.player.orientation])
  /\ UNCHANGED <<pc, coords, answer1, answer2, probe, q, input, board0, walk_vars>>

\* One iteration of the loop of the running call.
HIterate ==
  /\ pc = "harness"
  /\ test.active
  /\ ~test.returned
  /\ LET bt == test_iterate(board, test)
     IN /\ board' = bt.board
        /\ test' = bt.locals
  /\ UNCHANGED <<pc, coords, answer1, answer2, probe, call, q, input, board0, walk_vars>>

\* The caller takes the returned Option and drops the call's locals.
HReturn ==
  /\ pc = "harness"
  /\ test.active
  /\ test.returned
  /\ test' = NoProbe
  /\ call' = None
  /\ UNCHANGED <<board, pc, coords, answer1, answer2, probe, q, input, board0, walk_vars>>

NextTest == HStep \/ HCall \/ HIterate \/ HReturn

SpecTest == InitTest /\ [][NextTest]_vars

\* The running call keeps executing: the code is one thread with no
\* suspension point inside the loop.
FairSpecTest == SpecTest /\ WF_vars(HIterate)

\* ------------------------------------------------- the query harness
\* A caller that owns a parsed board and calls its two read-only queries
\* with arbitrary arguments, in range and out of range.
InitQuery ==
  \/ StartSmall(QMaxObst, "query")
  \/ \E lines \in EDGE_BOARDS \cup {INSERT_BOARD} : Start(lines, "query")

QueryAt ==
  /\ pc = "query"
  /\ ~q.some
  /\ \E r \in 0..(board.map_height + 1), c \in 0..(board.map_width + 1) :
       q' = Some([fn |-> "what_is_at", coord |-> Coord(r, c),
                  ret |-> what_is_at(board, Coord(r, c))])
  /\ UNCHANGED <<board, pc, coords, answer1, answer2, probe, test, call, input, board0,
                 walk_vars>>

QueryFront ==
  /\ pc = "query"
  /\ ~q.some
  /\ \E c \in Cells(board.map_height, board.map_width), o \in Orientations :
       LET player == [coords |-> c, orientation |-> o]
       IN q' = Some([fn |-> "what_is_in_front", player |-> player,
                     ret |-> what_is_in_front(board, player)])
  /\ UNCHANGED <<board, pc, coords, answer1, answer2, probe, test, call, input, board0,
                 walk_vars>>

\* The caller is done with the returned value.
QueryDrop ==
  /\ pc = "query"
  /\ q.some
  /\ q' = None
  /\ UNCHANGED <<board, pc, coords, answer1, answer2, probe, test, call, input, board0,
                 walk_vars>>

NextQuery == QueryAt \/ QueryFront \/ QueryDrop

SpecQuery == InitQuery /\ [][NextQuery]_vars

\* ------------------------------------------------- the write harness
\* A caller that owns a parsed board and calls one of its two cell writes
\* once, with an arbitrary coordinate, in range or out of range.  A panic
\* ends the program with the board as it was.
InitWrite ==
  \/ StartSmall(WMaxObst, "write")
  \/ Start(INSERT_BOARD, "write")

WriteSetAt ==
  /\ pc = "write"
  /\ ~q.some
  /\ \E r \in 0..(board.map_height + 1), c \in 0..(board.map_width + 1), e \in MapElements :
       /\ q' = Some([fn |-> "set_at", coord |-> Coord(r, c), element |-> e,
                     before |-> board])
       /\ IF set_at_panics(board, Coord(r, c))
          THEN pc' = "panicked" /\ board' = board
          ELSE pc' = pc /\ board' = set_at(board, Coord(r, c), e)
  /\ UNCHANGED <<coords, answer1, answer2, probe, test, call, input, board0, walk_vars>>

WriteUpdateMap ==
  /\ pc = "write"
  /\ ~q.some
  /\ \E r \in 0..(board.map_height + 1), c \in 0..(board.map_width + 1), e \in MapElements :
       /\ q' = Some([fn |-> "update_map", coord |-> Coord(r, c), element |-> e,
                     before |-> board])
       /\ IF update_map_panics(board, Coord(r, c))
          THEN pc' = "panicked" /\ board' = board
          ELSE pc' = pc /\ board' = update_map(board, Coord(r, c), e)
  /\ UNCHANGED <<coords, answer1, answer2, probe, test, call, input, board0, walk_vars>>

\* The caller reads the written cell back, as tests::test_insert does.
WriteReadBack ==
  /\ pc = "write"
  /\ q.some
  /\ q.val.fn \in {"set_at", "update_map"}
  /\ q' = Some([fn |-> "what_is_at", coord |-> q.val.coord,
                ret |-> what_is_at(board, q.val.coord)])
  /\ UNCHANGED <<board, pc, coords, answer1, answer2, probe, test, call, input, board0,
                 walk_vars>>

NextWrite == WriteSetAt \/ WriteUpdateMap \/ WriteReadBack

SpecWrite == InitWrite /\ [][NextWrite]_vars

\* ------------------------------------------------- the parse harness
\* A caller that hands try_from an arbitrary text, well formed or not.  The
\* text is given as the lines str::lines yields; 'x' stands for a character
\* try_from has no arm for.
TextChars == {".", "#", "^", ">", "v", "<", "x"}

\* The text of k lines whose characters, in reading order, are flat and
\* whose i-th line ends after cut[i] of them.
CutLines(flat, cut) ==
  [i \in DOMAIN cut |-> SubSeq(flat, (IF i = 1 THEN 0 ELSE cut[i - 1]) + 1, cut[i])]

\* The state before any board exists: control at p with the text in hand.
NoBoard(lines, p) ==
  /\ input = lines
  /\ pc = p
  /\ board = None
  /\ board0 = None
  /\ coords = {}
  /\ answer1 = None
  /\ answer2 = None
  /\ probe = None
  /\ test = NoProbe
  /\ call = None
  /\ q = None
  /\ occupied = {}
  /\ moves = 0
  /\ turns = 0
  /\ turns_at = << >>
  /\ trail = {}
  /\ looped = FALSE
  /\ back_at_start = FALSE
  /\ path = << >>
  /\ walk1 = None

InitParse ==
  \E n \in 0..PMaxChars, k \in 0..PMaxLines :
    \E flat \in [1..n -> TextChars], cut \in [1..k -> 0..n] :
      /\ k = 0 => n = 0
      /\ k > 0 => cut[k] = n
      /\ \A i \in 1..(k - 1) : cut[i] <= cut[i + 1]
      /\ NoBoard(CutLines(flat, cut), "parse")

\* SituationMap::try_from(text): Ok with the board, or Err.
TryFrom ==
  /\ pc = "parse"
  /\ LET parsed == try_from(input)
     IN /\ q' = Some([fn |-> "try_from", ret |-> parsed])
        /\ IF parsed.ok
           THEN pc' = "parsed" /\ board' = parsed.board /\ board0' = parsed.board
           ELSE pc' = "parse_error" /\ UNCHANGED <<board, board0>>
  /\ UNCHANGED <<coords, answer1, answer2, probe, test, call, input, walk_vars>>

NextParse == TryFrom

SpecParse == InitParse /\ [][NextParse]_vars

\* ------------------------------------------------- the repeat harness
\* A caller that owns a parsed board, steps it, and at any point of the
\* walk calls test_circular_path with the player's cursor twice in a row,
\* keeping what each call returned and the board each call left.
InitRepeat ==
  \/ StartSmall(TestMaxObst, "repeat")
  \/ \E lines \in {CIRCULAR_BOARD, AHEAD_BOARD} : Start(lines, "repeat")

RStep ==
  /\ pc = "repeat"
  /\ ~q.some
  /\ step(board).ret.some
  /\ board' = step(board).board
  /\ Walked(step(board))
  /\ UNCHANGED <<pc, coords, answer1, answer2, probe, test, call, q, input, board0>>

RCall ==
  /\ pc = "repeat"
  /\ ~q.some
  /\ LET r == test_circular_path(board, board.player.coords, board.player.orientation)
     IN /\ board' = r.board
        /\ q' = Some([fn |-> "test_circular_path",
                      call |-> [board |-> board, starting_at |-> board.player.coords,
                                orientation |-> board.player.orientation],
                      rets |-> <<r.ret>>, afters |-> <<r.board>>])
  /\ UNCHANGED <<pc, coords, answer1, answer2, probe, test, call, input, board0, walk_vars>>

\* The same call again, on the board the first call left.
RCallAgain ==
  /\ pc = "repeat"
  /\ q.some
  /\ Len(q.val.rets) = 1
  /\ LET r == test_circular_path(board, q.val.call.starting_at, q.val.call.orientation)
     IN /\ board' = r.board
        /\ q' = Some([q.val EXCEPT !.rets = Append(@, r.ret),
                                   !.afters = Append(@, r.board)])
  /\ UNCHANGED <<pc, coords, answer1, answer2, probe, test, call, input, board0, walk_vars>>

\* The caller is done with the two results.
RDrop ==
  /\ pc = "repeat"
  /\ q.some
  /\ Len(q.val.rets) = 2
  /\ q' = None
  /\ UNCHANGED <<board, pc, coords, answer1, answer2, probe, test, call, input, board0,
                 walk_vars>>

NextRepeat == RStep \/ RCall \/ RCallAgain \/ RDrop

SpecRepeat == InitRepeat /\ [][NextRepeat]_vars

\* ------------------------------------------------------ day07's main
\* day07's solve_part_1 over a calibration document, one line per step.
\* q holds its locals: the running sum, the number of lines done, and the
\* equation and solutions of the line done last with the sum before it.
CalibrationLine(t, v) == [sum_str |-> t, vector_strs |-> v]

\* tests::test_part1_example
D7_EXAMPLE_INPUT ==
  <<CalibrationLine(<<"1", "9", "0">>, <<<<"1", "0">>, <<"1", "9">>>>),
    CalibrationLine(<<"3", "2", "6", "7">>, <<<<"8", "1">>, <<"4", "0">>, <<"2", "7">>>>),
    CalibrationLine(<<"8", "3">>, <<<<"1", "7">>, <<"5">>>>),
    CalibrationLine(<<"1", "5", "6">>, <<<<"1", "5">>, <<"6">>>>),
    CalibrationLine(<<"7", "2", "9", "0">>, <<<<"6">>, <<"8">>, <<"6">>, <<"1", "5">>>>),
    CalibrationLine(<<"1", "6", "1", "0", "1", "1">>, <<<<"1", "6">>, <<"1", "0">>, <<"1", "3">>>>),
    CalibrationLine(<<"1", "9", "2">>, <<<<"1", "7">>, <<"8">>, <<"1", "4">>>>),
    CalibrationLine(<<"2", "1", "0", "3", "7">>, <<<<"9">>, <<"7">>, <<"1", "8">>, <<"1", "3">>>>),
    CalibrationLine(<<"2", "9", "2">>, <<<<"1", "1">>, <<"6">>, <<"1", "6">>, <<"2", "0">>>>)>>

\* The digit characters up to D7MaxDigit.
D7Digits == {DigitChars[k] : k \in 1..(D7MaxDigit + 1)}

\* Control at day07's solve_part_1 with the document in hand.
StartDay07(doc) ==
  /\ NoBoard(doc, "day07")

InitDay07 ==
  \/ \E n \in 1..D7MaxLen, m \in 1..2 :
       \E t \in [1..m -> D7Digits], v \in [1..n -> D7Digits] :
         StartDay07(<<CalibrationLine(t, [i \in 1..n |-> <<v[i]>>])>>)
  \/ StartDay07(D7_EXAMPLE_INPUT)

\* The lines solve_part_1 has gone through and its sum so far.
D7Lines == IF q.some THEN q.val.line ELSE 0

D7Sum == IF q.some THEN q.val.sum ELSE 0

\* One iteration of solve_part_1's loop.
D7Line ==
  /\ pc = "day07"
  /\ D7Lines < Len(input)
  /\ LET cal == parse_input_line(input[D7Lines + 1])
         solutions == calculate_recursively(0, cal.calibration_sum, << >>,
                                            cal.calibration_vectors)
     IN q' = Some([fn |-> "solve_part_1", line |-> D7Lines + 1, before |-> D7Sum,
                   sum |-> IF Len(solutions) >= 1 THEN D7Sum + cal.calibration_sum
                           ELSE D7Sum,
                   cal |-> cal, solutions |-> solutions])
  /\ UNCHANGED <<board, pc, coords, answer1, answer2, probe, test, call, input, board0,
                 walk_vars>>

\* The loop is over: solve_part_1 returns sum.
D7Return ==
  /\ pc = "day07"
  /\ D7Lines = Len(input)
  /\ answer1' = Some(D7Sum)
  /\ pc' = "day07_done"
  /\ UNCHANGED <<board, coords, answer2, probe, test, call, q, input, board0, walk_vars>>

NextDay07 == D7Line \/ D7Return

SpecDay07 == InitDay07 /\ [][NextDay07]_vars

\* ------------------------------------------------------ day02's rows
\* A caller that classifies one reactor row with check_row_safety, as
\* day02's main does for each row of the reactor.
\* tests::test_unsafe_delta_with_uneven_slope and the other rows of the tests
D2_TEST_ROWS ==
  {<<1, 2, 3, 4, 0>>, <<0, 1, 0, 1, 2>>, <<0, 1, 2, 3, 4>>, <<0, 0, 1, 2, 3>>,
   <<0, 1, 2, 3, 3>>, <<0, 1, 2, 3, 7>>}

InitDay02 ==
  \/ \E n \in 0..D2MaxLen : \E row \in [1..n -> 0..D2MaxVal] : NoBoard(row, "day02")
  \/ \E row \in D2_TEST_ROWS : NoBoard(row, "day02")

D2Check ==
  /\ pc = "day02"
  /\ ~q.some
  /\ q' = Some([fn |-> "check_row_safety", ret |-> check_row_safety(input)])
  /\ UNCHANGED <<board, pc, coords, answer1, answer2, probe, test, call, input, board0,
                 walk_vars>>

NextDay02 == D2Check

SpecDay02 == InitDay02 /\ [][NextDay02]_vars

\* ------------------------------------------- the patrol, as specified
\* The reference the claims are stated against: coordinates as plain pairs
\* of integers, the tile of a cell read from the text or from the row-major
\* map, and the patrol rule (advance, or turn clockwise when blocked).
OrientationCycle == <<"Up", "Right", "Down", "Left">>

Clockwise(o) ==
  LET i == CHOOSE k \in 1..4 : OrientationCycle[k] = o
  IN OrientationCycle[(i % 4) + 1]

Ahead(c, o) ==
  CASE o = "Up" -> [row |-> c.row - 1, col |-> c.col]
    [] o = "Right" -> [row |-> c.row, col |-> c.col + 1]
    [] o = "Down" -> [row |-> c.row + 1, col |-> c.col]
    [] o = "Left" -> [row |-> c.row, col |-> c.col - 1]

InMap(b, c) == c.row \in 0..(b.map_height - 1) /\ c.col \in 0..(b.map_width - 1)

AllCells(b) == Cells(b.map_height, b.map_width)

TileAt(b, c) == b.map[(b.map_width * c.row) + c.col + 1]

\* The tile the character at row, col of the text stands for.
Stored(lines, c) ==
  LET ch == lines[c.row + 1][c.col + 1]
  IN IF ch = "." THEN "Free" ELSE IF ch = "#" THEN "Obstructed" ELSE "PrevouslySeen"

VisitedCells(b) == {c \in AllCells(b) : TileAt(b, c) = "PrevouslySeen"}

WithObstruction(b, c) ==
  [b EXCEPT !.map[(b.map_width * c.row) + c.col + 1] = "Obstructed"]

\* Where a patrol that has left the map is.
Out == [out |-> TRUE]

\* One step of the patrol from cursor s; Out once it has left the map.
PatrolStep(b, s) ==
  IF s = Out THEN s
  ELSE LET a == Ahead(s.coords, s.orientation)
       IN IF ~InMap(b, a) THEN Out
          ELSE IF TileAt(b, a) = "Obstructed"
          THEN [s EXCEPT !.orientation = Clockwise(@)]
          ELSE [s EXCEPT !.coords = a]

\* n steps of the patrol from s.
RECURSIVE PatrolRun(_, _, _)
PatrolRun(b, s, n) ==
  IF n = 0 \/ s = Out THEN s ELSE PatrolRun(b, PatrolStep(b, s), n - 1)

\* k runs of n steps each.
RECURSIVE PatrolRuns(_, _, _, _)
PatrolRuns(b, s, n, k) ==
  IF k = 0 \/ s = Out THEN s ELSE PatrolRuns(b, PatrolRun(b, s, n), n, k - 1)

\* The least n with n * n >= StepCap(b).
RunLen(b) == CHOOSE n \in 1..StepCap(b) : n * n >= StepCap(b) /\ (n - 1) * (n - 1) < StepCap(b)

\* A patrol that leaves the map never holds a cursor twice, so it leaves
\* within 4 x width x height steps or never: it is trapped when it is still
\* in the map after that many steps.
Trapped(b, cursor) == PatrolRuns(b, cursor, RunLen(b), RunLen(b)) # Out

\* The cells whose obstruction, placed before the patrol starts, traps it.
TrappingCells(b) ==
  {c \in AllCells(b) : TileAt(b, c) = "Free" /\ Trapped(WithObstruction(b, c), b.player)}

\* ================================================================ claims
\* The players' forward move of a step: the coordinate changed.
MovedOntoFree == board'.player.coords # board.player.coords
                 /\ TileAt(board, board'.player.coords) = "Free"

\* C1: when main is done, solve_part_2's answer is the number of distinct
\* initially Free cells whose obstruction, placed before the patrol starts,
\* keeps the patrol from the parsed cursor inside the map for ever.
C1_CountsTrappingCells ==
  pc = "done" => answer2 = Some(Cardinality(TrappingCells(board0)))

\* C2: at every step of a walk the Visited cells are exactly the
\* coordinates the player has stood on, the start included, and
\* solve_part_1 returns their number.
C2_VisitedIsOccupied ==
  /\ VisitedCells(board) = occupied
  /\ board0.player.coords \in occupied
  /\ pc = "part1_done" => answer1 = Some(Cardinality(occupied))

\* A finished solve_part_1 whose walk turned and re-entered a cell.
C2_Witness ==
  /\ pc = "part1_done"
  /\ turns > 0
  /\ moves >= Cardinality(occupied)
  /\ answer1.val >= 3

\* The cell in front of the cursor the running harness call started from.
CallCandidate == Ahead(call.val.starting_at, call.val.orientation)

CallCursor == [coords |-> call.val.starting_at, orientation |-> call.val.orientation]

\* C3: a call of test_circular_path from a cursor with a cell ahead returns
\* Some(that cell) exactly when the patrol resumed from that cursor with that
\* cell Obstructed never leaves the map, and None exactly when it leaves.
C3_ProbeDecidesTrap ==
  (test.active /\ test.returned /\ InMap(call.val.board, CallCandidate)) =>
    LET trapped == Trapped(WithObstruction(call.val.board, CallCandidate), CallCursor)
    IN /\ (test.result = Some(CallCandidate)) <=> trapped
       /\ (test.result = None) <=> ~trapped

\* A call that found a cycle running through more than one cell.
C3_Witness ==
  /\ test.active /\ test.returned
  /\ test.result = Some(CallCandidate)
  /\ \E x, y \in test.visited_tiles : x[1] # y[1]

\* C4: while a call of test_circular_path runs, no cell but the candidate
\* differs from the board the call started from and the player is untouched;
\* once it has returned, on any path, the whole board is as it was.
C4_GridRestored ==
  test.active =>
    /\ board.player = call.val.board.player
    /\ board.map_width = call.val.board.map_width
    /\ board.map_height = call.val.board.map_height
    /\ Len(board.map) = Len(call.val.board.map)
    /\ \A c \in AllCells(board) :
         c # CallCandidate => TileAt(board, c) = TileAt(call.val.board, c)
    /\ test.returned => board = call.val.board

\* A call that obstructed a Visited tile and has returned.
C4_Witness ==
  /\ test.active /\ test.returned
  /\ test.old_tile = Some("PrevouslySeen")

\* C5: the loop of test_circular_path ends: every iteration moves the
\* virtual player, records a new (coords, orientation) pair, or returns;
\* the recorded pairs never outnumber 4 x width x height; and a running
\* call eventually returns.
C5_ProbeTerminates ==
  /\ [](Cardinality(test.visited_tiles) <= 4 * board.map_width * board.map_height)
  /\ [][(test.active /\ ~test.returned /\ test'.active) =>
          \/ test'.returned
          \/ /\ test'.virtual_player.val.coords # test.virtual_player.val.coords
             /\ test'.visited_tiles = test.visited_tiles
          \/ /\ test'.visited_tiles # test.visited_tiles
             /\ Cardinality(test'.visited_tiles) = Cardinality(test.visited_tiles) + 1]_vars
  /\ (test.active /\ ~test.returned) ~> test.returned

\* A call that returned after recording at least three turns.
C5_Witness ==
  /\ test.active /\ test.returned
  /\ Cardinality(test.visited_tiles) >= 3

\* C6 as stated: on a grid whose patrol has not come back to the start cell
\* with the start orientation, the walk makes at most width x height forward
\* moves and at most 4 turns at any one cell.
C6_AsStated ==
  (pc \in {"walk", "part1_done"} /\ ~back_at_start) =>
    /\ moves <= board.map_width * board.map_height
    /\ \A c \in AllCells(board) : turns_at[c] <= 4

\* C6 as amended: on a grid whose patrol leaves the map (it never holds one
\* (coords, orientation) state twice), the walk never holds a state twice,
\* makes at most 4 x width x height steps, forward moves and turns together,
\* and at most 4 turns at any one cell.
C6_WalkEnds ==
  (pc \in {"walk", "part1_done"} /\ ~Trapped(board0, board0.player)) =>
    /\ ~looped
    /\ moves + turns <= 4 * board.map_width * board.map_height
    /\ \A c \in AllCells(board) : turns_at[c] <= 4

\* A finished walk that made more forward moves than the map has cells.
C6_Witness ==
  /\ pc = "part1_done"
  /\ ~looped
  /\ moves > board.map_width * board.map_height

\* C7: in solve_part_2 every forward move onto a Free cell is made in a
\* tick whose probe tested that cell from the cursor held before the move.
C7_ProbedBeforeEachMove ==
  [][(pc \in {"first", "step"} /\ MovedOntoFree) =>
       /\ probe.some
       /\ probe.val.cursor = board.player
       /\ probe.val.before = board]_vars

\* C8: every probe solve_part_2 runs is for a cell that is Free at that
\* moment: not Obstructed, not Visited, not the player's own cell and not
\* the parsed start cell.
C8_ProbesOnlyFree ==
  probe.some =>
    LET candidate == Ahead(probe.val.cursor.coords, probe.val.cursor.orientation)
    IN /\ probe.val.cursor = probe.val.before.player
       /\ InMap(probe.val.before, candidate)
       /\ TileAt(probe.val.before, candidate) = "Free"
       /\ candidate # probe.val.cursor.coords
       /\ candidate # board0.player.coords
       /\ candidate \notin occupied \/ pc = "probe"

\* A probe that found a cycle, after the walk had already turned.
C8_Witness ==
  /\ pc = "step"
  /\ probe.some
  /\ probe.val.ret.some
  /\ turns > 0

\* C9: what_is_in_front of an in-map cursor is None exactly when the
\* neighbour in the cursor's orientation is outside the map, and otherwise
\* that neighbour with the tile the text gives it.
C9_FrontIsNeighbour ==
  (q.some /\ q.val.fn = "what_is_in_front") =>
    LET a == Ahead(q.val.player.coords, q.val.player.orientation)
    IN IF InMap(board, a)
       THEN q.val.ret = Some([coord |-> a, element |-> Stored(input, a)])
       ELSE q.val.ret = None

\* A query from the last row but one, facing Down onto an Obstructed tile
\* of the last row.
C9_Witness ==
  /\ q.some /\ q.val.fn = "what_is_in_front"
  /\ q.val.player.orientation = "Down"
  /\ q.val.ret.some
  /\ q.val.ret.val.coord.row = board.map_height - 1
  /\ q.val.ret.val.element = "Obstructed"

\* C10: what_is_at is None for every coordinate with row >= height or
\* col >= width and the tile the text gives that very cell otherwise.
C10_ReadIsChecked ==
  (q.some /\ q.val.fn = "what_is_at") =>
    IF q.val.coord.row >= board.map_height \/ q.val.coord.col >= board.map_width
    THEN q.val.ret = None
    ELSE q.val.ret = Some(Stored(input, q.val.coord))

\* A read one column past the end of a row that is not the last: the slot
\* map_width * row + col exists in the Vec and belongs to the next row.
C10_Witness ==
  /\ q.some /\ q.val.fn = "what_is_at"
  /\ q.val.coord.col = board.map_width
  /\ q.val.coord.row + 1 < board.map_height
  /\ q.val.ret = None

\* The last write of the write harness was to a coordinate outside the map.
WroteOutOfRange ==
  /\ q.some
  /\ q.val.fn \in {"set_at", "update_map"}
  /\ ~InMap(q.val.before, q.val.coord)

\* C11: a cell write (set_at or update_map) to a coordinate with row >=
\* height or column >= width is rejected with a panic and changes no cell:
\* it neither wraps onto another cell nor returns silently.
C11_OutOfRangeWriteRejected ==
  WroteOutOfRange => (pc = "panicked" /\ board = q.val.before)

\* The positions <<row, col>> (0-based) of the orientation glyphs of a text.
GlyphCells(lines) ==
  {rc \in (0..(Len(lines) - 1)) \X (0..(PMaxChars - 1)) :
     rc[2] < Len(lines[rc[1] + 1]) /\ lines[rc[1] + 1][rc[2] + 1] \in Glyphs}

\* A text as the puzzle defines it: at least one row, rows of equal length,
\* only the six known characters, exactly one orientation glyph.
WellFormed(lines) ==
  /\ Len(lines) >= 1
  /\ \A i \in 1..Len(lines) : Len(lines[i]) = Len(lines[1])
  /\ \A i \in 1..Len(lines) : \A j \in 1..Len(lines[i]) :
       lines[i][j] \in {".", "#", "^", ">", "v", "<"}
  /\ Cardinality(GlyphCells(lines)) = 1

\* The orientation a glyph stands for, by its place in ^ > v <.
GlyphFacing(g) == OrientationCycle[CHOOSE k \in 1..4 : <<"^", ">", "v", "<">>[k] = g]

\* C12: try_from succeeds exactly on the well-formed texts and gives no
\* grid otherwise; on success the grid has the text's size, the glyph's
\* cell is Visited and the cursor is on it with the glyph's orientation.
C12_ParsesWellFormedOnly ==
  (pc \in {"parsed", "parse_error"}) =>
    /\ (pc = "parsed") <=> WellFormed(input)
    /\ pc = "parse_error" => (q.val.ret = [ok |-> FALSE] /\ board = None)
    /\ pc = "parsed" =>
         LET rc == CHOOSE x \in GlyphCells(input) : TRUE
             g == Coord(rc[1], rc[2])
         IN /\ q.val.ret = [ok |-> TRUE, board |-> board]
            /\ board.map_height = Len(input)
            /\ board.map_width = Len(input[1])
            /\ Len(board.map) = board.map_height * board.map_width
            /\ \A c \in AllCells(board) : TileAt(board, c) = Stored(input, c)
            /\ TileAt(board, g) = "PrevouslySeen"
            /\ board.player.coords = g
            /\ board.player.orientation = GlyphFacing(input[rc[1] + 1][rc[2] + 1])

\* A two-line text parsed with the cursor off the first cell, not facing Up.
C12_Witness ==
  /\ pc = "parsed"
  /\ Len(input) = 2
  /\ board.player.coords # Coord(0, 0)
  /\ board.player.orientation # "Up"

\* C13: at every point of a walk and of every cycle test run from it,
\* neither the player nor the test's virtual player stands on an Obstructed
\* cell, the cell the test obstructs for its duration included.
C13_NeverOnObstructed ==
  /\ TileAt(board, board.player.coords) # "Obstructed"
  /\ test.active =>
       /\ InMap(board, test.virtual_player.val.coords)
       /\ TileAt(board, test.virtual_player.val.coords) # "Obstructed"
       /\ (~test.returned /\ test.old_location.some) =>
            /\ TileAt(board, test.old_location.val) = "Obstructed"
            /\ test.virtual_player.val.coords # test.old_location.val
            /\ board.player.coords # test.old_location.val

\* A running test whose virtual player has walked away from the player
\* after turning at the temporary obstruction of a cell that was not
\* Obstructed before.
C13_Witness ==
  /\ test.active /\ ~test.returned
  /\ moves > 0
  /\ test.old_tile.some /\ test.old_tile.val # "Obstructed"
  /\ [coords |-> call.val.starting_at, orientation |-> Clockwise(call.val.orientation)]
       \in {[coords |-> x[1], orientation |-> x[2]] : x \in test.visited_tiles}
  /\ test.virtual_player.val.coords # board.player.coords

\* C14: in the walk of solve_part_1 and in the walk of solve_part_2, cycle
\* tests included, the number of Visited cells never decreases from one
\* step to the next and never exceeds width x height.  (main starts the
\* second walk from the parsed board: that hand-over is not a step of
\* either walk.)
C14_VisitedCountGrows ==
  /\ [](seen_tiles(board) <= board.map_width * board.map_height)
  /\ [](pc = "probe" /\ probe_wanted(board) =>
          seen_tiles(test_begin(board, board.player.coords,
                                board.player.orientation).board) = seen_tiles(board))
  /\ [][pc # "part1_done" => seen_tiles(board') >= seen_tiles(board)]_vars

\* A finished solve_part_2 whose walk re-entered Visited cells and ran a
\* cycle test that found a trap.
C14_Witness ==
  /\ pc = "done"
  /\ moves > seen_tiles(board)
  /\ coords # {}

\* C15: two calls of test_circular_path in a row with the same grid,
\* candidate and starting cursor return the same result, and each leaves
\* the grid as it was before the first.
C15_TestIsRepeatable ==
  (q.some /\ q.val.fn = "test_circular_path") =>
    /\ \A i \in 1..Len(q.val.afters) : q.val.afters[i] = q.val.call.board
    /\ board = q.val.call.board
    /\ Len(q.val.rets) = 2 => q.val.rets[1] = q.val.rets[2]

\* Two calls in a row, made after the walk has turned, that both found the
\* trap.
C15_Witness ==
  /\ q.some /\ q.val.fn = "test_circular_path"
  /\ Len(q.val.rets) = 2
  /\ turns > 0
  /\ q.val.rets[2] = Some(Ahead(q.val.call.starting_at, q.val.call.orientation))

\* rotate_right applied n times.
RECURSIVE Rotated(_, _)
Rotated(o, n) == IF n = 0 THEN o ELSE Rotated(rotate_right(o), n - 1)

\* C16: rotate_right maps Up to Right, Right to Down, Down to Left and Left
\* to Up; four applications give the orientation back and fewer never do;
\* and in a walk the player's orientation changes by that transition only.
C16_RotateIsFourCycle ==
  /\ [](/\ rotate_right("Up") = "Right"
        /\ rotate_right("Right") = "Down"
        /\ rotate_right("Down") = "Left"
        /\ rotate_right("Left") = "Up"
        /\ \A o \in Orientations :
             /\ Rotated(o, 4) = o
             /\ \A n \in 1..3 : Rotated(o, n) # o)
  /\ [][(pc # "part1_done" /\ board'.player.orientation # board.player.orientation) =>
         /\ board'.player.orientation = Clockwise(board.player.orientation)
         /\ board'.player.coords = board.player.coords]_vars

\* A walk that has turned four times and faces the way it started.
C16_Witness ==
  /\ pc \in {"walk", "probe", "step"}
  /\ turns >= 4
  /\ \E c \in AllCells(board) : turns_at[c] >= 2
  /\ board.player.orientation = board0.player.orientation

\* C17: on the 10 x 10 worked example solve_part_1 returns 41 and
\* solve_part_2 returns 6, the six being distinct cells that each trap the
\* patrol.
C17_ExampleAnswers ==
  input = EXAMPLE_INPUT =>
    /\ answer1.some => answer1 = Some(41)
    /\ answer2.some =>
         /\ answer2 = Some(6)
         /\ Cardinality(coords) = 6
         /\ coords = TrappingCells(board0)

\* main has finished on the worked example.
C17_Witness ==
  /\ input = EXAMPLE_INPUT
  /\ pc = "done"
  /\ answer1.some /\ answer2.some

\* The parsed cursor faces the edge of the map: no cell lies ahead of it.
FacesEdge == ~InMap(board0, Ahead(board0.player.coords, board0.player.orientation))

\* C18: when the parsed cursor faces the edge of the map, the first query
\* reports no cell ahead and both walks end with no move made: the player
\* stays on the start cell, which is the only Visited cell, no cycle test
\* is run, solve_part_1 returns 1 and solve_part_2 returns 0.
C18_EdgeStartEndsAtOnce ==
  FacesEdge =>
    /\ what_is_in_front(board0, board0.player) = None
    /\ board = board0
    /\ moves = 0 /\ turns = 0
    /\ VisitedCells(board) = {board0.player.coords}
    /\ pc \notin {"probe", "step"}
    /\ probe = None /\ coords = {}
    /\ answer1.some => answer1 = Some(1)
    /\ answer2.some => answer2 = Some(0)

\* main has finished on a text of several rows and columns whose cursor
\* faces the right or the bottom edge.
C18_Witness ==
  /\ FacesEdge
  /\ pc = "done"
  /\ board0.player.orientation \in {"Right", "Down"}
  /\ board0.map_height > 1 /\ board0.map_width > 1

\* The value of the operands v with the operators ops between them
\* (ops[i] between v[i] and v[i + 1]), evaluated left to right from v[1].
RECURSIVE EvalLeft(_, _, _)
EvalLeft(v, ops, n) ==
  IF n = 1 THEN v[1]
  ELSE IF ops[n - 1] = "Add" THEN EvalLeft(v, ops, n - 1) + v[n]
  ELSE EvalLeft(v, ops, n - 1) * v[n]

\* Some choice of + or * between consecutive operands gives the target.
Solvable(cal) ==
  LET v == cal.calibration_vectors
  IN \E ops \in [1..(Len(v) - 1) -> {"Add", "Multiply"}] :
       EvalLeft(v, ops, Len(v)) = cal.calibration_sum

\* C19: day07's solve_part_1 adds the target of a line to its sum exactly
\* when some choice of + or * between consecutive operands, evaluated left
\* to right from the first operand, gives the target.
C19_AddsSolvableTargets ==
  (pc \in {"day07", "day07_done"} /\ q.some) =>
    q.val.sum = q.val.before + (IF Solvable(q.val.cal) THEN q.val.cal.calibration_sum ELSE 0)

\* Some adjacent pair of the row differs by more than 3.
HasUnsafeDelta(row) ==
  \E i \in 1..(Len(row) - 1) :
    (IF row[i] >= row[i + 1] THEN row[i] - row[i + 1] ELSE row[i + 1] - row[i]) > 3

\* The row changes its slope direction: it rises somewhere and falls
\* somewhere.
ChangesSlope(row) ==
  /\ \E i \in 1..(Len(row) - 1) : row[i] < row[i + 1]
  /\ \E i \in 1..(Len(row) - 1) : row[i] > row[i + 1]

\* No two adjacent measurements of the row are equal.
NeverFlat(row) == \A i \in 1..(Len(row) - 1) : row[i] # row[i + 1]

\* C20: day02's check_row_safety classifies every row that has both an
\* adjacent pair differing by more than 3 and a change of slope direction
\* as UnsafeDelta, not UnevenSlope.  (Stated for the rows with no equal
\* adjacent pair, so that NoSlope is out of the question.)
C20_DeltaBeforeSlope ==
  (pc = "day02" /\ q.some /\ HasUnsafeDelta(input) /\ ChangesSlope(input)
     /\ NeverFlat(input)) =>
    q.val.ret = "UnsafeDelta"

\* What one call of step may change, by what lies ahead of the player:
\* b is the board before the call, a the coordinate ahead, after the board
\* after the call and ended whether the call returned None.
StepFrame(b, after, ended) ==
  LET a == Ahead(b.player.coords, b.player.orientation)
  IN IF ~InMap(b, a) THEN
       /\ ended
       /\ after = b
     ELSE IF TileAt(b, a) = "Obstructed" THEN
       /\ ~ended
       /\ after.player.orientation = Clockwise(b.player.orientation)
       /\ after.player.coords = b.player.coords
       /\ after.map = b.map
       /\ after.map_width = b.map_width /\ after.map_height = b.map_height
     ELSE
       /\ ~ended
       /\ after.player.coords = a
       /\ after.player.orientation = b.player.orientation
       /\ TileAt(after, a) = "PrevouslySeen"
       /\ Len(after.map) = Len(b.map)
       /\ \A c \in AllCells(b) \ {a} : TileAt(after, c) = TileAt(b, c)
       /\ after.map_width = b.map_width /\ after.map_height = b.map_height

\* C21: every call of step in solve_part_1 and solve_part_2 changes only
\* what its case allows: a turn in place with no cell written when the cell
\* ahead is Obstructed; a move onto the cell ahead with only that cell
\* written, to Visited, when it is Free or Visited; and None with player
\* and grid unchanged when nothing lies ahead.
C21_StepFrame ==
  [][(pc \in {"walk", "first", "step"}) =>
       StepFrame(board, board', (pc' = "part1_done" \/ pc' = "done"))]_vars

\* A finished run of main whose walk moved onto Free and onto Visited
\* cells and turned.
C21_Witness ==
  /\ pc = "done"
  /\ turns > 0
  /\ moves > Cardinality(occupied)

\* C22: on the same parsed grid the walk inside solve_part_2 passes through
\* the same sequence of player states (coords, orientation) as the walk of
\* solve_part_1 and ends with the same Visited cells; a cycle test leaves
\* the player and every cell as they were.
C22_SameWalk ==
  (pc \in {"first", "probe", "step", "done"}) =>
    /\ walk1.some
    /\ Len(path) <= Len(walk1.val.path)
    /\ path = SubSeq(walk1.val.path, 1, Len(path))
    /\ VisitedCells(board) \subseteq walk1.val.visited
    /\ (pc = "step" /\ probe.some) => board = probe.val.before
    /\ pc = "done" =>
         /\ path = walk1.val.path
         /\ VisitedCells(board) = walk1.val.visited

\* solve_part_2 has returned after a walk that turned, re-entered cells and
\* ran cycle tests, one of which found a trap.
C22_Witness ==
  /\ pc = "done"
  /\ Len(path) > 4
  /\ turns > 0
  /\ coords # {}
  /\ moves > Cardinality(walk1.val.visited)

\* A coordinate a cell write may target: usize values within the map.
WriteInRange(b, c) ==
  /\ c.row \in Nat /\ c.col \in Nat
  /\ c.row < b.map_height /\ c.col < b.map_width
  /\ ~update_map_panics(b, c)
  /\ ~set_at_panics(b, c)

\* The player's state is one what_is_in_front may subtract from: the
\* subtraction of 1 from row or col is made only when that is not 0.
NoUnderflow(b, player) ==
  LET front == what_is_in_front(b, player)
  IN /\ player.coords.row \in Nat /\ player.coords.col \in Nat
     /\ front.some => (front.val.coord.row \in Nat /\ front.val.coord.col \in Nat)
     /\ (player.orientation = "Up" /\ player.coords.row = 0) => ~front.some
     /\ (player.orientation = "Left" /\ player.coords.col = 0) => ~front.some

\* C23: in every run of solve_part_1 and solve_part_2 from a parsed grid,
\* the cell step is about to write with update_map and the cell a cycle
\* test is about to write with set_at (to obstruct it, and to restore it)
\* are inside the map, so update_map never panics and set_at never indexes
\* another row; and what_is_in_front never subtracts from a 0 row or column.
C23_WritesInRange ==
  /\ (pc \in {"walk", "first", "probe", "step", "part1_done", "done"}) =>
       /\ InMap(board, board.player.coords)
       /\ NoUnderflow(board, board.player)
  /\ (pc \in {"walk", "first", "step"}) =>
       LET front == what_is_in_front(board, board.player)
       IN (front.some /\ front.val.element # "Obstructed") =>
            WriteInRange(board, front.val.coord)
  /\ (pc = "probe" /\ probe_wanted(board)) =>
       LET bt == test_begin(board, board.player.coords, board.player.orientation)
       IN /\ bt.locals.old_location.some
          /\ WriteInRange(board, bt.locals.old_location.val)
          /\ test_loop(bt).locals.old_location = bt.locals.old_location
  /\ probe.some => WriteInRange(probe.val.before,
                                 Ahead(probe.val.cursor.coords, probe.val.cursor.orientation))

\* solve_part_2 has returned after a walk that ran a cycle test and left
\* the map through its top row or its first column, where row - 1 or
\* col - 1 would underflow.
C23_Witness ==
  /\ pc = "done"
  /\ moves > 0
  /\ coords # {}
  /\ \/ board.player.orientation = "Up" /\ board.player.coords.row = 0
     \/ board.player.orientation = "Left" /\ board.player.coords.col = 0

====
